---- MODULE Spec2Model ----
(***************************************************************************)
(* Model of tools/mem_init_gen.py: a raw binary image is loaded, shaped    *)
(* to depth*width bytes and to a width boundary, cut into width-byte words *)
(* and rendered as BRAM text, an Altera MIF file or a VHDL package.        *)
(*                                                                         *)
(* The script is Python 2 code (byte strings are str, chr() builds the pad *)
(* byte, "/" on two ints is floor division), and the model follows those   *)
(* semantics.  The state is the interpreter's state while the script runs: *)
(* the parsed arguments, the position in the script, the byte buffer, the  *)
(* word list and the text written to standard output so far.               *)
(*                                                                         *)
(* A Python int is unbounded; it is modelled by its canonical base-16      *)
(* numeral: the sequence of its hex digit values, most significant first,  *)
(* without leading zeros (zero is the empty sequence).  Text is modelled   *)
(* as a sequence of one-character strings.                                 *)
(***************************************************************************)
EXTENDS Integers, Sequences, FiniteSets, TLC

VARIABLES args, file, pc, contents, words, out, cur, i

vars == <<args, file, pc, contents, words, out, cur, i>>

\* ------------------------------------------------------------- bounds ----
MaxLen == 3
MaxWidth == 4
MaxDepth == 2
\* a width whose association no longer fits the 80 column budget
WideWidth == 34
\* a depth with more than ten (and more than sixteen is not needed) words
DeepDepth == 11

\* ------------------------------------------------------ text literals ----
S_DEPTH ==
    <<"D", "E", "P", "T", "H", " ", "=", " ">>
S_WIDTH ==
    <<"W", "I", "D", "T", "H", " ", "=", " ">>
S_SEMI ==
    <<";">>
S_ADDRESS_RADIX ==
    <<"A", "D", "D", "R", "E", "S", "S", "_", "R", "A", "D", "I", "X", " ", "=", " ", "H", "E", "X", ";">>
S_DATA_RADIX ==
    <<"D", "A", "T", "A", "_", "R", "A", "D", "I", "X", " ", "=", " ", "H", "E", "X", ";">>
S_CONTENT ==
    <<"C", "O", "N", "T", "E", "N", "T">>
S_BEGIN ==
    <<"B", "E", "G", "I", "N">>
S_COLON ==
    <<" ", ":", " ">>
S_END ==
    <<"E", "N", "D", ";">>
S_MEMFILE ==
    <<"-", "-", " ", "M", "e", "m", "o", "r", "y", " ", "i", "n", "i", "t", "i", "a", "l", "i", "z", "a", "t", "i", "o", "n", " ", "f", "i", "l", "e", " ", "f", "o", "r", " ">>
S_DASHES ==
    <<"-", "-">>
S_GENERATED ==
    <<"-", "-", " ", "T", "h", "i", "s", " ", "f", "i", "l", "e", " ", "w", "a", "s", " ", "a", "u", "t", "o", "m", "a", "t", "i", "c", "a", "l", "l", "y", " ", "g", "e", "n", "e", "r", "a", "t", "e", "d", " ", "o", "n", " ">>
S_BY ==
    <<"-", "-", " ", "b", "y", " ">>
S_USING ==
    <<" ", "u", "s", "i", "n", "g", " ", "t", "h", "e", " ", "f", "o", "l", "l", "o", "w", "i", "n", "g", " ", "a", "r", "g", "u", "m", "e", "n", "t", "s", ":">>
S_ARGS ==
    <<"-", "-", " ", " ">>
S_PART ==
    <<" ", "i", "s", " ", "p", "a", "r", "t", " ", "o", "f", " ", "O", "H", "W", "R", " ", "g", "e", "n", "e", "r", "a", "l", "-", "c", "o", "r", "e", "s", ":">>
S_URL ==
    <<"-", "-", " ", "h", "t", "t", "p", "s", ":", "/", "/", "w", "w", "w", ".", "o", "h", "w", "r", ".", "o", "r", "g", "/", "p", "r", "o", "j", "e", "c", "t", "s", "/", "g", "e", "n", "e", "r", "a", "l", "-", "c", "o", "r", "e", "s", "/", "w", "i", "k", "i">>
S_LIBRARY_IEEE ==
    <<"l", "i", "b", "r", "a", "r", "y", " ", "i", "e", "e", "e", ";">>
S_USE_STD_LOGIC ==
    <<"u", "s", "e", " ", "i", "e", "e", "e", ".", "s", "t", "d", "_", "l", "o", "g", "i", "c", "_", "1", "1", "6", "4", ".", "a", "l", "l", ";">>
S_USE_NUMERIC ==
    <<"u", "s", "e", " ", "i", "e", "e", "e", ".", "n", "u", "m", "e", "r", "i", "c", "_", "s", "t", "d", ".", "a", "l", "l", ";">>
S_LIBRARY_WORK ==
    <<"l", "i", "b", "r", "a", "r", "y", " ", "w", "o", "r", "k", ";">>
S_USE_LOADER ==
    <<"u", "s", "e", " ", "w", "o", "r", "k", ".", "m", "e", "m", "o", "r", "y", "_", "l", "o", "a", "d", "e", "r", "_", "p", "k", "g", ".", "a", "l", "l", ";">>
S_PACKAGE ==
    <<"p", "a", "c", "k", "a", "g", "e", " ">>
S_PKG_IS ==
    <<"_", "p", "k", "g", " ", "i", "s">>
S_CONSTANT ==
    <<" ", " ", "c", "o", "n", "s", "t", "a", "n", "t", " ">>
S_ARRAY_OPEN ==
    <<" ", ":", " ", "t", "_", "m", "e", "m", "i", "n", "i", "t", "_", "a", "r", "r", "a", "y", "(">>
S_DOWNTO ==
    <<" ", "d", "o", "w", "n", "t", "o", " ", "0", ",", " ">>
S_DOWNTO_ASSIGN ==
    <<" ", "d", "o", "w", "n", "t", "o", " ", "0", ")", " ", ":", "=", " ", "(">>
S_INDENT ==
    <<" ", " ", " ", " ">>
S_ARROW ==
    <<" ", "=", ">", " ", "x", "\"">>
S_QUOTE ==
    <<"\"">>
S_CLOSE ==
    <<")", ";">>
S_COMMA ==
    <<",">>
S_END_PACKAGE ==
    <<"e", "n", "d", " ", "p", "a", "c", "k", "a", "g", "e", " ">>
S_PKG_SEMI ==
    <<"_", "p", "k", "g", ";">>
S_NAME_DEFAULT ==
    <<"m", "e", "m", "_", "i", "n", "i", "t">>
S_NAME_ROM ==
    <<"r", "o", "m">>

\* ------------------------------------------------------------- inputs ----
ByteVals == {0, 200}

Scenarios == {<<1, 2, 3, 4>>, <<10, 11, 12>>}

Files == UNION {[1..n -> ByteVals] : n \in 0..MaxLen} \cup Scenarios

Widths == (0..MaxWidth) \cup {WideWidth}

Depths == (0..MaxDepth) \cup {DeepDepth}

Pads == {-1, 0, 255, 256}

Formats == {"BRAM", "MIF", "VHD"}

Names == {S_NAME_DEFAULT, S_NAME_ROM}

\* --------------------------------------------- Python sequence idioms ----
Min(a, b) == IF a < b THEN a ELSE b

\* c * n for a one-element string c (empty when n <= 0)
Repeat(c, n) == [k \in 1..n |-> c]

\* s[lo:hi] for 0 <= lo, 0 <= hi
Slice(s, lo, hi) == SubSeq(s, lo + 1, Min(hi, Len(s)))

\* s[::-1]
Reverse(s) == [k \in 1..Len(s) |-> s[Len(s) + 1 - k]]

\* range(0, stop, step) for step > 0
Range(stop, step) == [j \in 1..((stop + step - 1) \div step) |-> (j - 1) * step]

\* s with its leading copies of z removed
StripLeading(s, z) ==
    IF \A k \in 1..Len(s) : s[k] = z
    THEN <<>>
    ELSE LET f == CHOOSE k \in 1..Len(s) :
                      s[k] # z /\ \A m \in 1..(k - 1) : s[m] = z
         IN  SubSeq(s, f, Len(s))

\* --------------------------------------------- numbers and their text ----
HexDigits ==
    <<"0", "1", "2", "3", "4", "5", "6", "7",
      "8", "9", "a", "b", "c", "d", "e", "f">>

HexVal(c) == CHOOSE d \in 0..15 : HexDigits[d + 1] = c

\* binascii.hexlify: two lowercase hex characters per byte
hexlify(s) ==
    [k \in 1..(2 * Len(s)) |->
        HexDigits[(IF k % 2 = 1 THEN s[(k + 1) \div 2] \div 16
                                ELSE s[k \div 2] % 16) + 1]]

\* int(str, 16)
int16(str) == StripLeading([k \in 1..Len(str) |-> HexVal(str[k])], 0)

\* the Python int of a small machine number
RECURSIVE NatOf(_)
NatOf(n) == IF n = 0 THEN <<>> ELSE NatOf(n \div 16) \o <<n % 16>>

\* str(n)
RECURSIVE StrNat(_)
StrNat(n) ==
    IF n < 10 THEN <<HexDigits[n + 1]>>
    ELSE StrNat(n \div 10) \o <<HexDigits[(n % 10) + 1]>>

Str(n) == IF n < 0 THEN <<"-">> \o StrNat(-n) ELSE StrNat(n)

\* '{:{iwidth}d}'.format(n): decimal, right aligned with spaces
FormatD(n, iwidth) == Repeat(" ", iwidth - Len(Str(n))) \o Str(n)

\* '{:0{fwidth}x}'.format(n): lowercase hex, zero padded on the left
FormatX(n, fwidth) ==
    LET d == IF n = <<>> THEN <<"0">>
             ELSE [k \in 1..Len(n) |-> HexDigits[n[k] + 1]]
    IN  Repeat("0", fwidth - Len(d)) \o d

\* the binary digits of n, most significant first, no leading zeros
BitsOf(n) ==
    StripLeading([k \in 1..(4 * Len(n)) |->
                     (n[(k + 3) \div 4] \div (2 ^ (3 - ((k - 1) % 4)))) % 2], 0)

\* '{:0{fwidth}b}'.format(n): binary, zero padded on the left
FormatB(n, fwidth) ==
    LET b == BitsOf(n)
        d == IF b = <<>> THEN <<"0">>
             ELSE [k \in 1..Len(b) |-> IF b[k] = 1 THEN "1" ELSE "0"]
    IN  Repeat("0", fwidth - Len(d)) \o d

\* ------------------------------------------------------------- shaper ----
\* chr ( args.pad & 0xff )
pad_val == args.pad % 256

\* fault variant of DepthShape: an over-long input is left untrimmed
DepthShape_NoTrim(c, depth, width, pad) ==
    IF depth # 0
    THEN LET byte_count == depth * width
         IN  IF byte_count > Len(c)
             THEN c \o Repeat(pad, byte_count - Len(c))
             ELSE c
    ELSE c

\* pad/trim to args.depth
DepthShape(c, depth, width, pad) ==
    IF depth # 0
    THEN LET byte_count == depth * width
         IN  IF byte_count > Len(c)
             THEN c \o Repeat(pad, byte_count - Len(c))
             ELSE Slice(c, 0, byte_count)
    ELSE c

\* pad to the args.width boundary
WidthShape(c, width, pad) == c \o Repeat(pad, Len(c) % width)

\* ---------------------------------------------------- word decomposer ----
\* fault variant of ChunkWord: the hex text is reversed instead of the bytes
ChunkWord_HexReversed(chunk, invert, width) ==
    IF invert = TRUE /\ width > 1
    THEN int16(Reverse(hexlify(chunk)))
    ELSE int16(hexlify(chunk))

ChunkWord(chunk, invert, width) ==
    IF invert = TRUE /\ width > 1
    THEN int16(hexlify(Reverse(chunk)))
    ELSE int16(hexlify(chunk))

Decompose(c, invert, width) ==
    LET r == Range(Len(c), width)
    IN  [j \in 1..Len(r) |-> ChunkWord(Slice(c, r[j], r[j] + width), invert, width)]

\* ----------------------------------------------------------- encoders ----
\* fault variant of BramText: the field width counts hex digits, not bits
BramText_NibbleWidth(word, width) == FormatB(word, width * 2)

BramText(word, width) == FormatB(word, width * 8)

MifHeaderText(count, width) ==
    << S_DEPTH \o Str(count) \o S_SEMI,
       S_WIDTH \o Str(width) \o S_SEMI,
       S_ADDRESS_RADIX,
       S_DATA_RADIX,
       S_CONTENT,
       S_BEGIN >>

\* fault variant of MifText: the address is written in decimal
MifText_DecimalAddress(idx, word, width) ==
    Str(idx) \o S_COLON \o FormatX(word, width * 2) \o S_SEMI

MifText(idx, word, width) ==
    FormatX(NatOf(idx), 0) \o S_COLON \o FormatX(word, width * 2) \o S_SEMI

\* the provenance banner and the library clauses; the input path, the date,
\* the program name and the argument dump are text the model does not track
VhdBannerText ==
    << Repeat("-", 80),
       S_MEMFILE \o <<"<in_file>">>,
       S_DASHES,
       S_GENERATED \o <<"<date>">>,
       S_BY \o <<"<prog>">> \o S_USING,
       S_ARGS \o <<"<vars(args)>">>,
       S_DASHES,
       S_DASHES \o <<" ", "<prog>">> \o S_PART,
       S_URL,
       Repeat("-", 80),
       <<>>,
       S_LIBRARY_IEEE,
       S_USE_STD_LOGIC,
       S_USE_NUMERIC,
       <<>>,
       S_LIBRARY_WORK,
       S_USE_LOADER,
       <<>> >>

VhdDeclText(name, count, width) ==
    << S_PACKAGE \o name \o S_PKG_IS,
       <<>>,
       S_CONSTANT \o name \o S_ARRAY_OPEN \o <<" ">>
           \o Str(count - 1) \o S_DOWNTO \o Str(width * 8 - 1) \o S_DOWNTO_ASSIGN >>

iwidth == Len(Str(Len(words)))

numcol == 80 \div (12 + iwidth + args.width * 2)

VhdAssocText(idx, word, iw, fw) ==
    S_INDENT \o FormatD(idx, iw) \o S_ARROW \o FormatX(word, fw) \o S_QUOTE

VhdEndText(name) == S_END_PACKAGE \o name \o S_PKG_SEMI

\* ------------------------------------------------------ state machine ----
Init ==
    /\ args \in [invert : BOOLEAN, oformat : Formats, depth : Depths,
                 width : Widths, pad : Pads, name : Names]
    /\ file \in Files
    /\ pc = "validate"
    /\ contents = <<>>
    /\ words = <<>>
    /\ out = <<>>
    /\ cur = <<>>
    /\ i = 0

\* check for proper padding value
Validate ==
    /\ pc = "validate"
    /\ pc' = IF args.pad \notin 0..255 THEN "usage_error" ELSE "read"
    /\ UNCHANGED <<args, file, contents, words, out, cur, i>>

\* read binary file
ReadFile ==
    /\ pc = "read"
    /\ contents' = file
    /\ pc' = "shape_depth"
    /\ UNCHANGED <<args, file, words, out, cur, i>>

ShapeDepth ==
    /\ pc = "shape_depth"
    /\ contents' = DepthShape(contents, args.depth, args.width, pad_val)
    /\ pc' = "shape_width"
    /\ UNCHANGED <<args, file, words, out, cur, i>>

\* len ( contents ) % 0 raises ZeroDivisionError
ShapeWidth ==
    /\ pc = "shape_width"
    /\ IF args.width = 0
       THEN /\ pc' = "ZeroDivisionError"
            /\ UNCHANGED contents
       ELSE /\ contents' = WidthShape(contents, args.width, pad_val)
            /\ pc' = "decompose"
    /\ UNCHANGED <<args, file, words, out, cur, i>>

DecomposeWords ==
    /\ pc = "decompose"
    /\ words' = Decompose(contents, args.invert, args.width)
    /\ pc' = "encode"
    /\ UNCHANGED <<args, file, contents, out, cur, i>>

BramLine ==
    /\ pc = "encode"
    /\ args.oformat = "BRAM"
    /\ i < Len(words)
    /\ out' = Append(out, BramText(words[i + 1], args.width))
    /\ i' = i + 1
    /\ UNCHANGED <<args, file, pc, contents, words, cur>>

BramDone ==
    /\ pc = "encode"
    /\ args.oformat = "BRAM"
    /\ i = Len(words)
    /\ pc' = "done"
    /\ UNCHANGED <<args, file, contents, words, out, cur, i>>

MifHeader ==
    /\ pc = "encode"
    /\ args.oformat = "MIF"
    /\ out' = out \o MifHeaderText(Len(words), args.width)
    /\ pc' = "mif_body"
    /\ UNCHANGED <<args, file, contents, words, cur, i>>

MifLine ==
    /\ pc = "mif_body"
    /\ i < Len(words)
    /\ out' = Append(out, MifText(i, words[i + 1], args.width))
    /\ i' = i + 1
    /\ UNCHANGED <<args, file, pc, contents, words, cur>>

MifFooter ==
    /\ pc = "mif_body"
    /\ i = Len(words)
    /\ out' = Append(out, S_END)
    /\ pc' = "done"
    /\ UNCHANGED <<args, file, contents, words, cur, i>>

VhdBanner ==
    /\ pc = "encode"
    /\ args.oformat = "VHD"
    /\ out' = out \o VhdBannerText
    /\ pc' = "vhd_decl"
    /\ UNCHANGED <<args, file, contents, words, cur, i>>

VhdDecl ==
    /\ pc = "vhd_decl"
    /\ out' = out \o VhdDeclText(args.name, Len(words), args.width)
    /\ pc' = "vhd_body"
    /\ UNCHANGED <<args, file, contents, words, cur, i>>

\* one pass of the association loop; i % 0 raises ZeroDivisionError after
\* the association and its comma have been written
VhdAssoc ==
    /\ pc = "vhd_body"
    /\ i < Len(words)
    /\ LET text == cur \o VhdAssocText(i, words[i + 1], iwidth, args.width * 2)
       IN  IF i = Len(words) - 1
           THEN /\ out' = Append(out, text \o S_CLOSE)
                /\ cur' = <<>>
                /\ i' = i + 1
                /\ pc' = pc
           ELSE IF numcol = 0
           THEN /\ cur' = text \o S_COMMA
                /\ pc' = "ZeroDivisionError"
                /\ UNCHANGED <<out, i>>
           ELSE IF i % numcol = numcol - 1
           THEN /\ out' = Append(out, text \o S_COMMA)
                /\ cur' = <<>>
                /\ i' = i + 1
                /\ pc' = pc
           ELSE /\ cur' = text \o S_COMMA
                /\ i' = i + 1
                /\ UNCHANGED <<out, pc>>
    /\ UNCHANGED <<args, file, contents, words>>

VhdFooter ==
    /\ pc = "vhd_body"
    /\ i = Len(words)
    /\ out' = out \o <<cur, VhdEndText(args.name)>>
    /\ cur' = <<>>
    /\ pc' = "done"
    /\ UNCHANGED <<args, file, contents, words, i>>

Next ==
    \/ Validate
    \/ ReadFile
    \/ ShapeDepth
    \/ ShapeWidth
    \/ DecomposeWords
    \/ BramLine
    \/ BramDone
    \/ MifHeader
    \/ MifLine
    \/ MifFooter
    \/ VhdBanner
    \/ VhdDecl
    \/ VhdAssoc
    \/ VhdFooter

Spec == Init /\ [][Next]_vars

\* ------------------------------------------ vocabulary of the properties ----
Front(s) == SubSeq(s, 1, Len(s) - 1)

\* positions of the script after the depth step, after the whole Shaper and
\* after the Word Decomposer (an abort in the VHD loop comes after all three)
AfterDepthStep ==
    \/ pc \in {"shape_width", "decompose", "encode", "mif_body", "vhd_decl",
               "vhd_body", "done"}
    \/ pc = "ZeroDivisionError" /\ args.width > 0

AfterShaper == AfterDepthStep /\ pc # "shape_width"

AfterDecomposer == AfterShaper /\ pc # "decompose"

Aborted == pc \in {"usage_error", "ZeroDivisionError"}

\* value of a numeral that fits a machine integer
RECURSIVE IntOf(_)
IntOf(n) == IF n = <<>> THEN 0 ELSE 16 * IntOf(Front(n)) + n[Len(n)]

\* unsigned big-endian value of a short byte string
RECURSIVE BigEndianInt(_)
BigEndianInt(b) == IF b = <<>> THEN 0 ELSE 256 * BigEndianInt(Front(b)) + b[Len(b)]

\* value of a short decimal text
RECURSIVE DecInt(_)
DecInt(s) == IF s = <<>> THEN 0 ELSE 10 * DecInt(Front(s)) + HexVal(s[Len(s)])

DecChars == {"0", "1", "2", "3", "4", "5", "6", "7", "8", "9"}

LowerHexChars == DecChars \cup {"a", "b", "c", "d", "e", "f"}

IsNumeral(n) ==
    /\ \A k \in 1..Len(n) : n[k] \in 0..15
    /\ n = <<>> \/ n[1] # 0

\* byte k (0 = most significant) of the numeral n read as a w-byte word
ByteAt(n, w, k) ==
    LET d == Repeat(0, 2 * w - Len(n)) \o n
    IN  16 * d[2 * k + 1] + d[2 * k + 2]

\* int(line, 2)
ParseBin(line) ==
    LET b == Repeat(0, (4 - (Len(line) % 4)) % 4)
                 \o [k \in 1..Len(line) |-> IF line[k] = "1" THEN 1 ELSE 0]
    IN  StripLeading([k \in 1..(Len(b) \div 4) |->
                         8 * b[4 * k - 3] + 4 * b[4 * k - 2] + 2 * b[4 * k - 1] + b[4 * k]], 0)

RECURSIVE Flatten(_)
Flatten(ls) == IF ls = <<>> THEN <<>> ELSE Flatten(Front(ls)) \o ls[Len(ls)]

\* ------------------------------------------------------------------ C1 ----
\* C1: once the Shaper has run with width > 0, the shaped byte length is a
\* multiple of width, and the number of words times width equals it.
C1_ShapedLengthMultipleOfWidth ==
    (AfterShaper /\ args.width > 0) =>
        /\ Len(contents) % args.width = 0
        /\ AfterDecomposer => Len(words) * args.width = Len(contents)

\* ------------------------------------------------------------------ C2 ----
\* C2: with depth == 0 the shaped bytes are the input followed only by pad
\* bytes, and their length is the smallest multiple of width >= the input
\* length; 0A 0B 0C with width 4, pad 0 gives 0A 0B 0C 00 and one word
\* 0x0A0B0C00.
C2_DepthZeroRoundsUpToWidth ==
    (AfterShaper /\ args.width > 0 /\ args.depth = 0) =>
        LET L == Len(file)
            w == args.width
        IN  /\ SubSeq(contents, 1, L) = file
            /\ \A k \in (L + 1)..Len(contents) : contents[k] = args.pad
            /\ Len(contents) = ((L + w - 1) \div w) * w
            /\ (file = <<10, 11, 12>> /\ w = 4 /\ args.pad = 0) =>
                   /\ contents = <<10, 11, 12, 0>>
                   /\ AfterDecomposer /\ ~args.invert
                          => words = <<NatOf(168496128)>>

C4_WordsAreBigEndianChunks ==
    (AfterDecomposer /\ args.width > 0 /\ Len(contents) % args.width = 0) =>
        LET w == args.width
        IN  /\ Len(words) = Len(contents) \div w
            /\ \A j \in 1..Len(words) :
                   LET chunk == SubSeq(contents, (j - 1) * w + 1, j * w)
                       bytes == IF args.invert THEN Reverse(chunk) ELSE chunk
                   IN  /\ IsNumeral(words[j])
                       /\ Len(words[j]) <= 2 * w
                       /\ \A k \in 0..(w - 1) : ByteAt(words[j], w, k) = bytes[k + 1]
                       /\ w <= 3 => IntOf(words[j]) = BigEndianInt(bytes)
            /\ w = 1 => /\ Decompose(contents, TRUE, w) = Decompose(contents, FALSE, w)
                        /\ words = Decompose(contents, ~args.invert, w)
            /\ (contents = <<1, 2, 3, 4>> /\ w = 4) =>
                   words = <<NatOf(IF args.invert THEN 67305985 ELSE 16909060)>>

C4_Witness ==
    /\ pc = "done"
    /\ args.invert /\ args.width = 4 /\ args.depth = 0
    /\ file = <<1, 2, 3, 4>>
    /\ contents = file
    /\ words = <<NatOf(67305985)>>

\* ------------------------------------------------------------------ C5 ----
\* C5: the MIF header is DEPTH, WIDTH, ADDRESS_RADIX = HEX, DATA_RADIX =
\* HEX, CONTENT, BEGIN in this order, and its WIDTH line gives the number
\* of bits per word, WIDTH = <width*8>;
C5_MifWidthIsBits ==
    (args.oformat = "MIF" /\ pc \in {"mif_body", "done"}) =>
        /\ Len(out) >= 6
        /\ SubSeq(out[1], 1, Len(S_DEPTH)) = S_DEPTH
        /\ out[2] = S_WIDTH \o Str(args.width * 8) \o S_SEMI
        /\ out[3] = S_ADDRESS_RADIX
        /\ out[4] = S_DATA_RADIX
        /\ out[5] = S_CONTENT
        /\ out[6] = S_BEGIN

\* ------------------------------------------------------------------ C6 ----
\* C6: in MIF format DEPTH is the number of words, the body has one line per
\* word in order, body line i carries the address i in lowercase hex without
\* leading zeros and the word in lowercase hex padded to width*2 digits, and
\* the footer END; follows the body.
C6_MifBodyLine(idx) ==
    LET line == out[7 + idx]
        dw == 2 * args.width
        a == SubSeq(line, 1, Len(line) - dw - 4)
        d == SubSeq(line, Len(a) + 4, Len(a) + 3 + dw)
    IN  /\ Len(line) >= dw + 5
        /\ SubSeq(line, Len(a) + 1, Len(a) + 3) = <<" ", ":", " ">>
        /\ line[Len(line)] = ";"
        /\ \A k \in 1..Len(a) : a[k] \in LowerHexChars
        /\ a[1] # "0" \/ a = <<"0">>
        /\ IntOf(int16(a)) = idx
        /\ \A k \in 1..Len(d) : d[k] \in LowerHexChars
        /\ int16(d) = words[idx + 1]

C6_MifDepthAndBody ==
    (args.oformat = "MIF" /\ pc \in {"mif_body", "done"}) =>
        LET field == SubSeq(out[1], Len(S_DEPTH) + 1, Len(out[1]) - 1)
        IN  /\ Len(out) = 6 + i + (IF pc = "done" THEN 1 ELSE 0)
            /\ SubSeq(out[1], 1, Len(S_DEPTH)) = S_DEPTH
            /\ out[1][Len(out[1])] = ";"
            /\ field # <<>>
            /\ \A k \in 1..Len(field) : field[k] \in DecChars
            /\ field[1] # "0" \/ field = <<"0">>
            /\ DecInt(field) = Len(words)
            /\ \A idx \in 0..(i - 1) : C6_MifBodyLine(idx)
            /\ pc = "done" => /\ i = Len(words)
                              /\ out[Len(out)] = <<"E", "N", "D", ";">>

C6_Witness ==
    /\ pc = "done"
    /\ args.oformat = "MIF"
    /\ args.width = 2
    /\ Len(words) > 10
    /\ SubSeq(out[17], 1, 4) = <<"a", " ", ":", " ">>

\* ------------------------------------------------------------------ C7 ----
\* C7: BRAM output is one line per word in order and nothing else; a line is
\* exactly width*8 characters '0'/'1', most significant bit first, and read
\* back in base 2 it is the word, which renders to the same line again.
C7_BramLinesRoundTrip ==
    (args.oformat = "BRAM" /\ pc \in {"encode", "done"}) =>
        /\ Len(out) = i
        /\ cur = <<>>
        /\ pc = "done" => i = Len(words)
        /\ \A idx \in 1..i :
               /\ Len(out[idx]) = args.width * 8
               /\ \A k \in 1..Len(out[idx]) : out[idx][k] \in {"0", "1"}
               /\ ParseBin(out[idx]) = words[idx]
               /\ FormatB(ParseBin(out[idx]), args.width * 8) = out[idx]

C7_Witness ==
    /\ pc = "done"
    /\ args.oformat = "BRAM"
    /\ args.width = 2
    /\ file = <<0, 200, 200>> /\ args.depth = 2
    /\ words = <<NatOf(200), NatOf(51200)>>
    /\ out = << <<"0", "0", "0", "0", "0", "0", "0", "0",
                  "1", "1", "0", "0", "1", "0", "0", "0">>,
                <<"1", "1", "0", "0", "1", "0", "0", "0",
                  "0", "0", "0", "0", "0", "0", "0", "0">> >>

\* ------------------------------------------------------------------ C8 ----
\* C8: in VHD format the constant is declared (wordCount-1 downto 0,
\* width*8-1 downto 0), exactly wordCount associations <index> => x"<hex>"
\* follow with indices 0..wordCount-1 in order and width*2 hex digits, each
\* followed by a comma except the last, which is followed by );, and the
\* output ends with end package <name>_pkg;
RECURSIVE C8_Associations(_)
C8_Associations(n) ==
    IF n = 0 THEN <<>>
    ELSE C8_Associations(n - 1)
             \o S_INDENT \o FormatD(n - 1, iwidth) \o S_ARROW
             \o FormatX(words[n], args.width * 2) \o S_QUOTE
             \o (IF n = Len(words) THEN S_CLOSE ELSE S_COMMA)

C8_VhdAssociations ==
    (args.oformat = "VHD" /\ args.width > 0 /\ AfterDecomposer
       /\ pc \in {"done", "ZeroDivisionError"}) =>
        /\ Len(out) >= 23
        /\ out[21] = S_CONSTANT \o args.name \o S_ARRAY_OPEN \o <<" ">>
                         \o Str(Len(words) - 1) \o S_DOWNTO
                         \o Str(args.width * 8 - 1) \o S_DOWNTO_ASSIGN
        /\ Flatten(SubSeq(out, 22, Len(out) - 2)) = C8_Associations(Len(words))
        /\ \A k \in 1..Len(words) : Len(FormatX(words[k], args.width * 2)) = args.width * 2
        /\ out[Len(out)] = S_END_PACKAGE \o args.name \o S_PKG_SEMI

\* ------------------------------------------------------------------ C9 ----
\* C9: a run with width == 0 is rejected by argument validation, as a usage
\* error, before the Shaper runs.
C9_ZeroWidthRejected ==
    (args.width = 0 /\ pc # "validate") => pc = "usage_error"

\* ----------------------------------------------------------------- C10 ----
\* C10: for width > 0 a run either ends in an error having written nothing,
\* or completes having written the encoding of every word; no run stops
\* with an error after part of the encoding has been written.
C10_AllOrNothing ==
    args.width > 0 =>
        /\ Aborted => out = <<>> /\ cur = <<>>
        /\ pc = "done" => i = Len(words) /\ cur = <<>>
====
